---- MODULE Spec2Model ----
(***************************************************************************)
(* Model of the idea-refinement pipeline of src/app.py: the four cached    *)
(* stage functions (get_ideas, evaluate_ideas, fix_json_with_gpt,          *)
(* generate_briefs), the two thread-pool fan-outs and the three button     *)
(* handlers that write st.session_state.                                   *)
(*                                                                         *)
(* A provider response is a nondeterministic choice from a small set of    *)
(* texts, or a raised error.  The futures of a stage call exist while the  *)
(* call is blocked in its thread pool and are gone when it has returned.   *)
(***************************************************************************)
EXTENDS Integers, Sequences, FiniteSets, TLC

VARIABLES
    generated_ideas,      \* st.session_state.generated_ideas (<<>> when unset)
    refined_ideas,        \* st.session_state.refined_ideas   (<<>> when unset)
    idea_briefs,          \* st.session_state.idea_briefs     (<<>> when unset)
    cache_get_ideas,      \* st.cache_data store of get_ideas
    cache_evaluate_ideas, \* st.cache_data store of evaluate_ideas
    cache_fix_json,       \* st.cache_data store of fix_json_with_gpt
    cache_generate_briefs,\* st.cache_data store of generate_briefs
    recomputed,           \* cached functions whose body returned for an argument tuple already stored
    pc,                   \* "idle", or the stage whose thread pool the script run is blocked in
    call,                 \* the stage call of the current / most recent button click
    tasks,                \* the futures of the running stage call, in submission order
    done,                 \* indices of settled futures in the order as_completed yields them
    runs                  \* number of stage calls so far that missed the cache

vars == <<generated_ideas, refined_ideas, idea_briefs, cache_get_ideas,
          cache_evaluate_ideas, cache_fix_json, cache_generate_briefs,
          recomputed, pc, call, tasks, done, runs>>

session == <<generated_ideas, refined_ideas, idea_briefs>>
caches == <<cache_get_ideas, cache_evaluate_ideas, cache_fix_json, cache_generate_briefs>>

----------------------------------------------------------------------------
(* Bounds of the model *)

MaxIdeas == 2        \* largest value of the num_ideas widget explored (the widget allows 1..1000)
MaxRuns == 3         \* stage calls that miss the cache (and so call a provider) explored in one session

(* Program constants *)

EvalMaxWorkers == 10 \* ThreadPoolExecutor(max_workers=10) in evaluate_ideas

gpt_model == "ft:gpt-3.5-turbo-0125:personal:idea-generator:9DgQ5nsD"
Opus == "claude-3-opus-20240229"
claude_models == {Opus}

Topics == {"", "topic"}          \* st.text_input: empty or not
Temperatures == {7}              \* slider value in tenths

----------------------------------------------------------------------------
(* Texts *)
(* A text is named by a short string; Tokens gives its content as a          *)
(* sequence of tokens, on which split, replace and json.loads work.          *)

NL == "\n"
TitlePrefix == "Title: "

Ideas == {"idea"}                \* completions the brainstorming model may return

\* summaries the evaluation model may return
RefinedTexts == {"RefA", "RefB"}

\* what the enhancement call may return
EnhancedTexts == {"JsonFull", "Prose"}

\* what the repair call may return
FixedTexts == {"JsonFull", "JsonPartial", "JsonTruncated"}

\* the schema literal passed to fix_json_with_gpt
expected_format == "expected_format"

BriefKeys == {"title", "description", "justification", "methodology", "datasets_sources"}

\* In a JSON text a member token k stands for  "k": "<string>".
\* RefB repeats the label inside its first line.
Tokens(text) ==
    CASE text = "idea" -> <<TitlePrefix, "idea">>
      [] text = "RefA" -> <<TitlePrefix, "A", NL, "Description: x">>
      [] text = "RefB" -> <<TitlePrefix, "B ", TitlePrefix, "C", NL, "Description: y">>
      [] text = "Prose" -> <<TitlePrefix, "A", NL, "Methodology: z">>
      [] text = "JsonFull" -> <<"{", "title", "description", "justification",
                                "methodology", "datasets_sources", "}">>
      [] text = "JsonPartial" -> <<"{", "title", "description", "}">>
      [] text = "JsonTruncated" -> <<"{", "title", "description">>
      [] text = "expected_format" -> <<"{", "title", "description", "justification",
                                       "methodology", "datasets_sources", "}">>
      [] OTHER -> <<>>

NoText == ""
NoBrief == [type |-> "none", keys |-> {}]

Min(S) == CHOOSE x \in S : \A y \in S : x <= y

\* str.split("\n")[0]
FirstLine(s) ==
    LET brk == {i \in 1..Len(s) : s[i] = NL}
    IN  IF brk = {} THEN s ELSE SubSeq(s, 1, Min(brk) - 1)

\* str.replace(tok, ""): every occurrence is removed
Replace(s, tok) == SelectSeq(s, LAMBDA x : x # tok)

\* x.split("\n")[0].replace("Title: ", "")
TitleOf(text) == Replace(FirstLine(Tokens(text)), TitlePrefix)

\* json.loads succeeds on an object of members
JsonParses(text) ==
    LET s == Tokens(text) IN
    /\ Len(s) >= 2
    /\ s[1] = "{"
    /\ s[Len(s)] = "}"
    /\ \A i \in 2..(Len(s) - 1) : s[i] \notin {"{", "}", NL, TitlePrefix}

\* json.loads: the dict of the members
JsonLoads(text) ==
    LET s == Tokens(text) IN [type |-> "dict", keys |-> {s[i] : i \in 2..(Len(s) - 1)}]

----------------------------------------------------------------------------
(* st.cache_data *)

\* variant: the store is never consulted
CacheHit_Never(cache, key) == FALSE

\* a call is served from the store when its argument tuple is a key of it
CacheHit(cache, key) == key \in DOMAIN cache

\* a returned value is stored under the argument tuple
CacheStore(cache, key, value) == (key :> value) @@ cache

\* variant: a raised exception is stored like a result
CacheAfterRaise_Stores(cache, key) == (key :> <<>>) @@ cache

\* a raised exception leaves the store as it was
CacheAfterRaise(cache, key) == cache

\* the body of fn has returned for key: a second return for a stored key is recorded
Returned(fn, cache, key) == IF key \in DOMAIN cache THEN recomputed \cup {fn} ELSE recomputed

\* Record of one stage call: the cached function called, its argument tuple,
\* whether st.cache_data served it, how it ended, what it returned, the provider
\* requests it issued and how many of them failed, the exception it raised and
\* the future that raised it, the titles selected in the multiselect, and
\* whether the call before it had the same arguments and raised.
NoCall == [fn |-> "none", key |-> <<>>, hit |-> FALSE, status |-> "none",
           value |-> <<>>, reqs |-> 0, failed |-> 0, err |-> "none", errTask |-> 0,
           sel |-> {}, retry |-> FALSE]

\* A future just submitted to the pool: its worker has issued the first request.
\* content, fixCalls and fixReqs are the locals of a generate_idea_brief worker
\* (the enhancement text, its calls of fix_json_with_gpt, its repair requests);
\* text, brief and err are what the finished future holds: the summary
\* (get_idea_summary), the brief (generate_idea_brief) or the exception.
NewTask(arg) == [arg |-> arg, st |-> "running", content |-> NoText,
                 fixCalls |-> 0, fixReqs |-> 0,
                 text |-> NoText, brief |-> NoBrief, err |-> "none"]

\* the previous call was the same function on the same arguments and raised
Retry(fn, key) == call.status = "raised" /\ call.fn = fn /\ call.key = key

CacheOf(fn) ==
    CASE fn = "get_ideas" -> cache_get_ideas
      [] fn = "evaluate_ideas" -> cache_evaluate_ideas
      [] fn = "fix_json_with_gpt" -> cache_fix_json
      [] fn = "generate_briefs" -> cache_generate_briefs

CachedFunctions == {"get_ideas", "evaluate_ideas", "fix_json_with_gpt", "generate_briefs"}

\* variant: the tab shows its widgets whatever the session holds
Gate_Open(entry) == TRUE

\* if not st.session_state.get(...): warning; else: the tab's widgets and handler
Gate(entry) == entry # <<>>

Init ==
    /\ generated_ideas = <<>>
    /\ refined_ideas = <<>>
    /\ idea_briefs = <<>>
    /\ cache_get_ideas = <<>>
    /\ cache_evaluate_ideas = <<>>
    /\ cache_fix_json = <<>>
    /\ cache_generate_briefs = <<>>
    /\ recomputed = {}
    /\ pc = "idle"
    /\ call = NoCall
    /\ tasks = <<>>
    /\ done = <<>>
    /\ runs = 0

----------------------------------------------------------------------------
(* tab1: "Brainstorm Ideas" *)

\* variant: the request asks for num_ideas_mult completions
GetIdeasResponses_Mult(num_ideas) == [1..(num_ideas * 10) -> Ideas]

\* get_ideas body: one batched request for num_ideas completions; it returns
\* the list of the choices, or the request raises and get_ideas re-raises.
GetIdeasResponses(num_ideas) == [1..num_ideas -> Ideas]

\* variant: the topic is checked after get_ideas was called
GenerateRejected_Calls(topic, num_ideas, temperature) ==
    /\ pc = "idle"
    /\ topic = ""
    /\ UNCHANGED runs
    /\ call' = [NoCall EXCEPT !.fn = "get_ideas", !.status = "rejected", !.reqs = 1,
                              !.key = <<topic, num_ideas, temperature, gpt_model>>]
    /\ tasks' = <<>>
    /\ done' = <<>>
    /\ UNCHANGED <<session, caches, recomputed, pc>>

\* not topic: warning, nothing is called
GenerateRejected(topic, num_ideas, temperature) ==
    /\ pc = "idle"
    /\ topic = ""
    /\ UNCHANGED runs
    /\ call' = [NoCall EXCEPT !.fn = "get_ideas", !.status = "rejected"]
    /\ tasks' = <<>>
    /\ done' = <<>>
    /\ UNCHANGED <<session, caches, recomputed, pc>>

\* the argument tuple is in the store: the stored list is returned
GenerateCached(topic, num_ideas, temperature) ==
    LET key == <<topic, num_ideas, temperature, gpt_model>> IN
    /\ pc = "idle"
    /\ topic # ""
    /\ CacheHit(cache_get_ideas, key)
    /\ UNCHANGED runs
    /\ generated_ideas' = cache_get_ideas[key]
    /\ call' = [NoCall EXCEPT !.fn = "get_ideas", !.key = key, !.hit = TRUE,
                              !.status = "ok", !.value = cache_get_ideas[key],
                              !.retry = Retry("get_ideas", key)]
    /\ tasks' = <<>>
    /\ done' = <<>>
    /\ UNCHANGED <<refined_ideas, idea_briefs, caches, recomputed, pc>>

\* variant: new ideas reset the later stages
GenerateOk_Clears(topic, num_ideas, temperature) ==
    LET key == <<topic, num_ideas, temperature, gpt_model>> IN
    /\ pc = "idle"
    /\ runs < MaxRuns
    /\ topic # ""
    /\ ~CacheHit(cache_get_ideas, key)
    /\ \E ideas \in GetIdeasResponses(num_ideas) :
        /\ cache_get_ideas' = CacheStore(cache_get_ideas, key, ideas)
        /\ generated_ideas' = ideas
        /\ call' = [NoCall EXCEPT !.fn = "get_ideas", !.key = key, !.status = "ok",
                                  !.value = ideas, !.reqs = 1,
                                  !.retry = Retry("get_ideas", key)]
    /\ recomputed' = Returned("get_ideas", cache_get_ideas, key)
    /\ runs' = runs + 1
    /\ tasks' = <<>>
    /\ done' = <<>>
    /\ refined_ideas' = <<>>
    /\ idea_briefs' = <<>>
    /\ UNCHANGED <<cache_evaluate_ideas, cache_fix_json, cache_generate_briefs, pc>>

\* cache miss, the request succeeds
GenerateOk(topic, num_ideas, temperature) ==
    LET key == <<topic, num_ideas, temperature, gpt_model>> IN
    /\ pc = "idle"
    /\ runs < MaxRuns
    /\ topic # ""
    /\ ~CacheHit(cache_get_ideas, key)
    /\ \E ideas \in GetIdeasResponses(num_ideas) :
        /\ cache_get_ideas' = CacheStore(cache_get_ideas, key, ideas)
        /\ generated_ideas' = ideas
        /\ call' = [NoCall EXCEPT !.fn = "get_ideas", !.key = key, !.status = "ok",
                                  !.value = ideas, !.reqs = 1,
                                  !.retry = Retry("get_ideas", key)]
    /\ recomputed' = Returned("get_ideas", cache_get_ideas, key)
    /\ runs' = runs + 1
    /\ tasks' = <<>>
    /\ done' = <<>>
    /\ UNCHANGED <<refined_ideas, idea_briefs, cache_evaluate_ideas, cache_fix_json,
                   cache_generate_briefs, pc>>

\* cache miss, the request raises: get_ideas re-raises, the handler's except
\* reports it and the session is not written
GenerateRaises(topic, num_ideas, temperature) ==
    LET key == <<topic, num_ideas, temperature, gpt_model>> IN
    /\ pc = "idle"
    /\ runs < MaxRuns
    /\ topic # ""
    /\ ~CacheHit(cache_get_ideas, key)
    /\ cache_get_ideas' = CacheAfterRaise(cache_get_ideas, key)
    /\ call' = [NoCall EXCEPT !.fn = "get_ideas", !.key = key, !.status = "raised",
                              !.reqs = 1, !.failed = 1, !.err = "provider",
                              !.retry = Retry("get_ideas", key)]
    /\ runs' = runs + 1
    /\ tasks' = <<>>
    /\ done' = <<>>
    /\ UNCHANGED <<session, cache_evaluate_ideas, cache_fix_json, cache_generate_briefs,
                   recomputed, pc>>

Generate ==
    \E topic \in Topics, num_ideas \in 1..MaxIdeas, temperature \in Temperatures :
        \/ GenerateRejected(topic, num_ideas, temperature)
        \/ GenerateCached(topic, num_ideas, temperature)
        \/ GenerateOk(topic, num_ideas, temperature)
        \/ GenerateRaises(topic, num_ideas, temperature)

----------------------------------------------------------------------------
(* The fan-out shared by evaluate_ideas and generate_briefs:                 *)
(*   futures = [executor.submit(f, x) for x in xs]                           *)
(*   results = [future.result() for future in as_completed(futures)]         *)
(* inside "with ThreadPoolExecutor(...)", whose exit joins every worker.     *)

\* variant: the list is not cut to num_ideas
Slice_All(s, n) == s

\* generated_ideas[:num_ideas]
Slice(s, n) == SubSeq(s, 1, IF n < Len(s) THEN n ELSE Len(s))

Submit(args) == [i \in 1..Len(args) |-> NewTask(args[i])]

Settled(t) == t.st \in {"ok", "failed"}

\* variant: the pool is not joined, the first failed future ends the call
AllSettled_Early ==
    \/ \A i \in 1..Len(tasks) : Settled(tasks[i])
    \/ \E k \in 1..Len(done) : tasks[done[k]].st = "failed"

\* leaving "with ThreadPoolExecutor(...) as executor" is executor.shutdown(wait=True):
\* the call goes on, by return or by exception, when every worker has finished
AllSettled == \A i \in 1..Len(tasks) : Settled(tasks[i])

\* variant: the exception of a failed future is swallowed
FirstFailed_Ignore(ts, d) == 0

\* future.result() re-raises the worker's exception: the list comprehension
\* stops at the first failed future that as_completed yields (0: none failed)
FirstFailed(ts, d) ==
    LET bad == {k \in 1..Len(d) : ts[d[k]].st = "failed"}
    IN  IF bad = {} THEN 0 ELSE d[Min(bad)]

\* the pool of evaluate_ideas runs at most EvalMaxWorkers workers at a time and
\* hands out the submitted calls in order: call i has started once fewer than
\* EvalMaxWorkers earlier calls are unfinished
Started(ts, i) == Cardinality({j \in 1..(i - 1) : ~Settled(ts[j])}) < EvalMaxWorkers

\* [future.result() for future in as_completed(futures)] in evaluate_ideas
EvalCollect(ts, d) == [k \in 1..Len(d) |-> ts[d[k]].text]

\* [future.result() for future in as_completed(futures)] in generate_briefs
BriefCollect(ts, d) == [k \in 1..Len(d) |-> ts[d[k]].brief]

----------------------------------------------------------------------------
(* tab2: "Evaluate and Refine Ideas" *)

EvaluateKey(num_ideas, model) == <<generated_ideas, num_ideas, model>>

\* evaluate_ideas is served from the store; the handler writes refined_ideas
EvaluateCached(num_ideas, model) ==
    LET key == EvaluateKey(num_ideas, model) IN
    /\ pc = "idle"
    /\ Gate(generated_ideas)
    /\ CacheHit(cache_evaluate_ideas, key)
    /\ UNCHANGED runs
    /\ refined_ideas' = cache_evaluate_ideas[key]
    /\ call' = [NoCall EXCEPT !.fn = "evaluate_ideas", !.key = key, !.hit = TRUE,
                              !.status = "ok", !.value = cache_evaluate_ideas[key],
                              !.retry = Retry("evaluate_ideas", key)]
    /\ tasks' = <<>>
    /\ done' = <<>>
    /\ UNCHANGED <<generated_ideas, idea_briefs, caches, recomputed, pc>>

\* cache miss: one get_idea_summary future per idea of generated_ideas[:num_ideas]
EvaluateSubmit(num_ideas, model) ==
    LET key == EvaluateKey(num_ideas, model) IN
    /\ pc = "idle"
    /\ runs < MaxRuns
    /\ Gate(generated_ideas)
    /\ ~CacheHit(cache_evaluate_ideas, key)
    /\ runs' = runs + 1
    /\ tasks' = Submit(Slice(generated_ideas, num_ideas))
    /\ done' = <<>>
    /\ call' = [NoCall EXCEPT !.fn = "evaluate_ideas", !.key = key, !.status = "running",
                              !.reqs = Len(tasks'),
                              !.retry = Retry("evaluate_ideas", key)]
    /\ pc' = "eval"
    /\ UNCHANGED <<session, caches, recomputed>>

\* a get_idea_summary worker gets its response
EvaluateTaskOk(i) ==
    /\ pc = "eval"
    /\ i \in 1..Len(tasks)
    /\ tasks[i].st = "running"
    /\ Started(tasks, i)
    /\ \E text \in RefinedTexts :
        tasks' = [tasks EXCEPT ![i].st = "ok", ![i].text = text]
    /\ done' = Append(done, i)
    /\ UNCHANGED <<session, caches, recomputed, pc, call, runs>>

\* a get_idea_summary worker's request raises
EvaluateTaskFails(i) ==
    /\ pc = "eval"
    /\ i \in 1..Len(tasks)
    /\ tasks[i].st = "running"
    /\ Started(tasks, i)
    /\ tasks' = [tasks EXCEPT ![i].st = "failed", ![i].err = "provider"]
    /\ done' = Append(done, i)
    /\ call' = [call EXCEPT !.failed = @ + 1]
    /\ UNCHANGED <<session, caches, recomputed, pc, runs>>

\* the with block is left once every worker has finished; evaluate_ideas
\* returns idea_summaries[:num_ideas], the store keeps it, the handler writes it
EvaluateReturns ==
    /\ pc = "eval"
    /\ AllSettled
    /\ FirstFailed(tasks, done) = 0
    /\ LET value == Slice(EvalCollect(tasks, done), call.key[2]) IN
        /\ cache_evaluate_ideas' = CacheStore(cache_evaluate_ideas, call.key, value)
        /\ refined_ideas' = value
        /\ call' = [call EXCEPT !.status = "ok", !.value = value]
    /\ recomputed' = Returned("evaluate_ideas", cache_evaluate_ideas, call.key)
    /\ pc' = "idle"
    /\ tasks' = <<>>
    /\ done' = <<>>
    /\ UNCHANGED <<generated_ideas, idea_briefs, cache_get_ideas, cache_fix_json,
                   cache_generate_briefs, runs>>

\* variant: the summaries collected before the exception are written
EvaluateRaises_Writes ==
    /\ pc = "eval"
    /\ AllSettled
    /\ FirstFailed(tasks, done) # 0
    /\ cache_evaluate_ideas' = CacheAfterRaise(cache_evaluate_ideas, call.key)
    /\ call' = [call EXCEPT !.status = "raised",
                            !.errTask = FirstFailed(tasks, done),
                            !.err = tasks[FirstFailed(tasks, done)].err]
    /\ pc' = "idle"
    /\ tasks' = <<>>
    /\ done' = <<>>
    /\ refined_ideas' = SelectSeq(EvalCollect(tasks, done), LAMBDA t : t # NoText)
    /\ UNCHANGED <<generated_ideas, idea_briefs, cache_get_ideas, cache_fix_json,
                   cache_generate_briefs, recomputed, runs>>

\* a future raised: evaluate_ideas re-raises, the handler has no except and the
\* script run ends before the session is written
EvaluateRaises ==
    /\ pc = "eval"
    /\ AllSettled
    /\ FirstFailed(tasks, done) # 0
    /\ cache_evaluate_ideas' = CacheAfterRaise(cache_evaluate_ideas, call.key)
    /\ call' = [call EXCEPT !.status = "raised",
                            !.errTask = FirstFailed(tasks, done),
                            !.err = tasks[FirstFailed(tasks, done)].err]
    /\ pc' = "idle"
    /\ tasks' = <<>>
    /\ done' = <<>>
    /\ UNCHANGED <<session, cache_get_ideas, cache_fix_json, cache_generate_briefs,
                   recomputed, runs>>

Evaluate ==
    \/ \E num_ideas \in 1..MaxIdeas, model \in claude_models :
            \/ EvaluateCached(num_ideas, model)
            \/ EvaluateSubmit(num_ideas, model)
    \/ \E i \in 1..MaxIdeas : EvaluateTaskOk(i) \/ EvaluateTaskFails(i)
    \/ EvaluateReturns
    \/ EvaluateRaises

----------------------------------------------------------------------------
(* tab3: "Generate Idea Briefs" *)

\* refined_ideas_df['Refined Ideas'].apply(lambda x: x.split("\n")[0].replace("Title: ", ""))
RefinedTitles(refined) == [i \in 1..Len(refined) |-> TitleOf(refined[i])]

\* [idea for title, idea in zip(titles, refined) if title in selected_titles]
RECURSIVE ZipFilter(_, _, _)
ZipFilter(titles, blocks, selected_titles) ==
    IF titles = <<>> \/ blocks = <<>> THEN <<>>
    ELSE (IF Head(titles) \in selected_titles THEN <<Head(blocks)>> ELSE <<>>)
         \o ZipFilter(Tail(titles), Tail(blocks), selected_titles)

\* variant: one block per selected title (the first that carries it)
SelectedBlocks_Unique(refined, selected_titles) ==
    LET keep == {i \in 1..Len(refined) :
                    /\ TitleOf(refined[i]) \in selected_titles
                    /\ \A j \in 1..(i - 1) : TitleOf(refined[j]) # TitleOf(refined[i])}
        kept == SelectSeq([i \in 1..Len(refined) |-> i], LAMBDA i : i \in keep)
    IN  [k \in 1..Len(kept) |-> refined[kept[k]]]

SelectedBlocks(refined, selected_titles) ==
    ZipFilter(RefinedTitles(refined), refined, selected_titles)

\* options of st.multiselect: the titles of the refined ideas on display
TitleOptions == {TitleOf(refined_ideas[i]) : i \in 1..Len(refined_ideas)}

Titles == {TitleOf(text) : text \in RefinedTexts}

\* the worker is over: the future keeps the result or the exception only
Finish(task) == [task EXCEPT !.content = NoText, !.fixReqs = 0]

\* variant: a JSONDecodeError is swallowed and the worker returns nothing
ParseBrief_Swallow(task, fixed_json) ==
    IF JsonParses(fixed_json)
    THEN Finish([task EXCEPT !.st = "ok", !.brief = JsonLoads(fixed_json)])
    ELSE Finish([task EXCEPT !.st = "ok"])

\* idea_brief = json.loads(fixed_json); return idea_brief
\* (a JSONDecodeError ends the worker, the future holds the exception)
ParseBrief(task, fixed_json) ==
    IF JsonParses(fixed_json)
    THEN Finish([task EXCEPT !.st = "ok", !.brief = JsonLoads(fixed_json)])
    ELSE Finish([task EXCEPT !.st = "failed", !.err = "parse"])

FixKey(content) == <<content, expected_format>>

\* variant: threads that miss the same key compute it at the same time
FixLocked_None(key) == FALSE

\* st.cache_data computes one key in one thread at a time
FixLocked(key) ==
    \E j \in 1..Len(tasks) : tasks[j].st = "fixing" /\ FixKey(tasks[j].content) = key

\* not selected_titles: warning, nothing is called
BriefRejected(selected_titles, model) ==
    /\ pc = "idle"
    /\ selected_titles \subseteq TitleOptions
    /\ Gate(refined_ideas)
    /\ selected_titles = {}
    /\ UNCHANGED runs
    /\ call' = [NoCall EXCEPT !.fn = "generate_briefs", !.status = "rejected"]
    /\ tasks' = <<>>
    /\ done' = <<>>
    /\ UNCHANGED <<session, caches, recomputed, pc>>

\* generate_briefs is served from the store; the handler writes idea_briefs
BriefCached(selected_titles, model) ==
    LET blocks == SelectedBlocks(refined_ideas, selected_titles)
        key == <<blocks, model>>
    IN
    /\ pc = "idle"
    /\ selected_titles \subseteq TitleOptions
    /\ Gate(refined_ideas)
    /\ selected_titles # {}
    /\ CacheHit(cache_generate_briefs, key)
    /\ UNCHANGED runs
    /\ idea_briefs' = cache_generate_briefs[key]
    /\ call' = [NoCall EXCEPT !.fn = "generate_briefs", !.key = key, !.hit = TRUE,
                              !.status = "ok", !.value = cache_generate_briefs[key],
                              !.sel = selected_titles,
                              !.retry = Retry("generate_briefs", key)]
    /\ tasks' = <<>>
    /\ done' = <<>>
    /\ UNCHANGED <<generated_ideas, refined_ideas, caches, recomputed, pc>>

\* cache miss: one generate_idea_brief future per selected block; every worker
\* issues its enhancement request
BriefSubmit(selected_titles, model) ==
    LET blocks == SelectedBlocks(refined_ideas, selected_titles)
        key == <<blocks, model>>
    IN
    /\ pc = "idle"
    /\ selected_titles \subseteq TitleOptions
    /\ runs < MaxRuns
    /\ Gate(refined_ideas)
    /\ selected_titles # {}
    /\ ~CacheHit(cache_generate_briefs, key)
    /\ runs' = runs + 1
    /\ tasks' = Submit(blocks)
    /\ done' = <<>>
    /\ call' = [NoCall EXCEPT !.fn = "generate_briefs", !.key = key, !.status = "running",
                              !.reqs = Len(blocks), !.sel = selected_titles,
                              !.retry = Retry("generate_briefs", key)]
    /\ pc' = "brief"
    /\ UNCHANGED <<session, caches, recomputed>>

\* content = response.content[0].text
BriefEnhanced(i) ==
    /\ pc = "brief"
    /\ i \in 1..Len(tasks)
    /\ tasks[i].st = "running"
    /\ \E content \in EnhancedTexts :
        tasks' = [tasks EXCEPT ![i].st = "enhanced", ![i].content = content]
    /\ UNCHANGED <<session, caches, recomputed, pc, call, done, runs>>

\* the enhancement request raises
BriefEnhanceFails(i) ==
    /\ pc = "brief"
    /\ i \in 1..Len(tasks)
    /\ tasks[i].st = "running"
    /\ tasks' = [tasks EXCEPT ![i].st = "failed", ![i].err = "provider"]
    /\ done' = Append(done, i)
    /\ call' = [call EXCEPT !.failed = @ + 1]
    /\ UNCHANGED <<session, caches, recomputed, pc, runs>>

\* fix_json_with_gpt(content, expected_format) is served from the store,
\* then json.loads
BriefFixCached(i) ==
    /\ pc = "brief"
    /\ i \in 1..Len(tasks)
    /\ tasks[i].st = "enhanced"
    /\ CacheHit(cache_fix_json, FixKey(tasks[i].content))
    /\ LET t == ParseBrief([tasks[i] EXCEPT !.fixCalls = @ + 1],
                           cache_fix_json[FixKey(tasks[i].content)])
       IN /\ tasks' = [tasks EXCEPT ![i] = t]
          /\ call' = [call EXCEPT !.failed = IF t.st = "failed" THEN @ + 1 ELSE @]
    /\ done' = Append(done, i)
    /\ UNCHANGED <<session, caches, recomputed, pc, runs>>

\* fix_json_with_gpt(content, expected_format) misses: the repair request is issued
BriefFixRequest(i) ==
    /\ pc = "brief"
    /\ i \in 1..Len(tasks)
    /\ tasks[i].st = "enhanced"
    /\ ~CacheHit(cache_fix_json, FixKey(tasks[i].content))
    /\ ~FixLocked(FixKey(tasks[i].content))
    /\ tasks' = [tasks EXCEPT ![i].st = "fixing", ![i].fixCalls = @ + 1, ![i].fixReqs = @ + 1]
    /\ call' = [call EXCEPT !.reqs = @ + 1]
    /\ UNCHANGED <<session, caches, recomputed, pc, done, runs>>

\* the repair request returns: fix_json_with_gpt returns the text and the
\* store keeps it, then json.loads
BriefFixed(i) ==
    /\ pc = "brief"
    /\ i \in 1..Len(tasks)
    /\ tasks[i].st = "fixing"
    /\ \E fixed_json \in FixedTexts :
        LET t == ParseBrief(tasks[i], fixed_json) IN
        /\ cache_fix_json' = CacheStore(cache_fix_json, FixKey(tasks[i].content), fixed_json)
        /\ tasks' = [tasks EXCEPT ![i] = t]
        /\ call' = [call EXCEPT !.failed = IF t.st = "failed" THEN @ + 1 ELSE @]
    /\ recomputed' = Returned("fix_json_with_gpt", cache_fix_json, FixKey(tasks[i].content))
    /\ done' = Append(done, i)
    /\ UNCHANGED <<session, cache_get_ideas, cache_evaluate_ideas, cache_generate_briefs,
                   pc, runs>>

\* the repair request raises: fix_json_with_gpt raises, nothing is stored
BriefFixFails(i) ==
    /\ pc = "brief"
    /\ i \in 1..Len(tasks)
    /\ tasks[i].st = "fixing"
    /\ cache_fix_json' = CacheAfterRaise(cache_fix_json, FixKey(tasks[i].content))
    /\ tasks' = [tasks EXCEPT ![i] = Finish([@ EXCEPT !.st = "failed", !.err = "provider"])]
    /\ call' = [call EXCEPT !.failed = @ + 1]
    /\ done' = Append(done, i)
    /\ UNCHANGED <<session, cache_get_ideas, cache_evaluate_ideas, cache_generate_briefs,
                   recomputed, pc, runs>>

\* the with block is left once every worker has finished; generate_briefs
\* returns idea_briefs, the store keeps it, the handler writes it
BriefReturns ==
    /\ pc = "brief"
    /\ AllSettled
    /\ FirstFailed(tasks, done) = 0
    /\ LET value == BriefCollect(tasks, done) IN
        /\ cache_generate_briefs' = CacheStore(cache_generate_briefs, call.key, value)
        /\ idea_briefs' = value
        /\ call' = [call EXCEPT !.status = "ok", !.value = value]
    /\ recomputed' = Returned("generate_briefs", cache_generate_briefs, call.key)
    /\ pc' = "idle"
    /\ tasks' = <<>>
    /\ done' = <<>>
    /\ UNCHANGED <<generated_ideas, refined_ideas, cache_get_ideas, cache_evaluate_ideas,
                   cache_fix_json, runs>>

\* a future raised: generate_briefs re-raises, the handler has no except and
\* the script run ends before the session is written
BriefRaises ==
    /\ pc = "brief"
    /\ AllSettled
    /\ FirstFailed(tasks, done) # 0
    /\ cache_generate_briefs' = CacheAfterRaise(cache_generate_briefs, call.key)
    /\ call' = [call EXCEPT !.status = "raised",
                            !.errTask = FirstFailed(tasks, done),
                            !.err = tasks[FirstFailed(tasks, done)].err]
    /\ pc' = "idle"
    /\ tasks' = <<>>
    /\ done' = <<>>
    /\ UNCHANGED <<session, cache_get_ideas, cache_evaluate_ideas, cache_fix_json,
                   recomputed, runs>>

Brief ==
    \/ \E selected_titles \in SUBSET Titles, model \in claude_models :
            \/ BriefRejected(selected_titles, model)
            \/ BriefCached(selected_titles, model)
            \/ BriefSubmit(selected_titles, model)
    \/ \E i \in 1..MaxIdeas :
            \/ BriefEnhanced(i)
            \/ BriefEnhanceFails(i)
            \/ BriefFixCached(i)
            \/ BriefFixRequest(i)
            \/ BriefFixed(i)
            \/ BriefFixFails(i)
    \/ BriefReturns
    \/ BriefRaises

----------------------------------------------------------------------------
(* tab4: "Final Results" *)

\* the table and the expanders of tab4 read the five fields of every brief:
\* the export button is reached when no lookup raised KeyError
Renders(briefs) == \A i \in 1..Len(briefs) : BriefKeys \subseteq briefs[i].keys

\* "Export All Idea Briefs as PDF": export_briefs(st.session_state.idea_briefs)
\* builds the document and writes nothing to the session
Export ==
    /\ pc = "idle"
    /\ Gate(idea_briefs)
    /\ Renders(idea_briefs)
    /\ call' = [NoCall EXCEPT !.fn = "export_briefs", !.status = "ok", !.value = idea_briefs]
    /\ tasks' = <<>>
    /\ done' = <<>>
    /\ UNCHANGED <<session, caches, recomputed, pc, runs>>

Next == Generate \/ Evaluate \/ Brief \/ Export

Spec == Init /\ [][Next]_vars

----------------------------------------------------------------------------
(* Properties *)

Finished == call.status \in {"ok", "raised"}

GenRan == call.fn = "get_ideas" /\ ~call.hit /\ Finished
EvalRan == call.fn = "evaluate_ideas" /\ ~call.hit /\ Finished
BriefRan == call.fn = "generate_briefs" /\ ~call.hit /\ Finished
BriefClicked == call.fn = "generate_briefs" /\ call.status \in {"running", "ok", "raised"}

\* the step in which the running stage call returns or raises
EvalEnds == pc = "eval" /\ pc' = "idle"
BriefEnds == pc = "brief" /\ pc' = "idle"

TaskIds == 1..Len(tasks)

Failed == {i \in TaskIds : tasks[i].st = "failed"}
Succeeded == {i \in TaskIds : tasks[i].st = "ok"}

\* the five-field record, exactly
WellFormed(text) == JsonParses(text) /\ JsonLoads(text).keys = BriefKeys

Count(x, seq) == Cardinality({i \in 1..Len(seq) : seq[i] = x})

\* C1: when evaluate_ideas returns, the i-th element of its result is the
\* summary produced for the i-th submitted idea, whatever the completion order.
C1_OrderPreserved ==
    [][(EvalEnds /\ call'.status = "ok") =>
         \A i \in 1..Len(call'.value) : call'.value[i] = tasks[i].text]_vars

\* C2: a call whose argument tuple is stored returns the stored value and
\* issues no provider request; a successful call leaves its value stored; a
\* body runs only for a tuple that is not stored; a stored entry is never
\* dropped or replaced, and no body returns a second time for a stored tuple.
C2_CacheHit ==
    /\ [](/\ call.hit =>
                /\ call.status = "ok"
                /\ call.reqs = 0
                /\ call.key \in DOMAIN CacheOf(call.fn)
                /\ call.value = CacheOf(call.fn)[call.key]
          /\ (call.status = "ok" /\ call.fn \in CachedFunctions) =>
                /\ call.key \in DOMAIN CacheOf(call.fn)
                /\ CacheOf(call.fn)[call.key] = call.value
          /\ call.status = "running" => call.key \notin DOMAIN CacheOf(call.fn)
          /\ \A i \in TaskIds :
                tasks[i].st = "fixing" => FixKey(tasks[i].content) \notin DOMAIN cache_fix_json
          /\ recomputed = {})
    /\ [][/\ \A fn \in CachedFunctions : \A k \in DOMAIN CacheOf(fn) :
                k \in DOMAIN CacheOf(fn)' /\ CacheOf(fn)'[k] = CacheOf(fn)[k]
          /\ \A i \in TaskIds :
                (/\ pc = "brief"
                 /\ tasks[i].st = "enhanced"
                 /\ FixKey(tasks[i].content) \in DOMAIN cache_fix_json) =>
                    /\ tasks'[i].st \in {"enhanced", "ok", "failed"}
                    /\ tasks'[i].st # "enhanced" => call'.reqs = call.reqs
                    /\ tasks'[i].st = "ok" =>
                          tasks'[i].brief = JsonLoads(cache_fix_json[FixKey(tasks[i].content)])]_vars

C2_Witness ==
    /\ call.hit
    /\ call.fn = "generate_briefs"
    /\ call.reqs = 0
    /\ idea_briefs = call.value

\* C3: a cached call that raised left no entry for its argument tuple, a
\* failed repair request stores nothing, and a call that repeats the
\* arguments of a raised call runs the body again (it is not served from the
\* store and it issues requests).
C3_FailuresNotCached ==
    /\ [](/\ (call.status = "raised" /\ call.fn \in CachedFunctions) =>
                call.key \notin DOMAIN CacheOf(call.fn)
          /\ call.retry => (~call.hit /\ call.reqs >= 1))
    /\ [][\A i \in TaskIds :
            (/\ pc = "brief"
             /\ tasks[i].st = "fixing"
             /\ tasks'[i].st = "failed"
             /\ tasks'[i].err = "provider") =>
                /\ cache_fix_json' = cache_fix_json
                /\ FixKey(tasks[i].content) \notin DOMAIN cache_fix_json']_vars

C3_Witness ==
    /\ call.retry
    /\ call.status = "ok"
    /\ call.reqs >= 1

\* C4 (as claimed): generation returns N - M ideas when M requests fail; a
\* failed request never aborts the batch.
C4_PartialGeneration ==
    GenRan => (call.status = "ok" /\ Len(call.value) = call.key[2] - call.failed)

\* C4 (amended): generation issues one batched request; when it succeeds
\* exactly N ideas are returned and written to the session, when it fails
\* get_ideas raises and no idea is returned.
C4_BatchedGeneration ==
    GenRan =>
        /\ call.reqs = 1
        /\ \/ /\ call.status = "ok"
              /\ call.failed = 0
              /\ Len(call.value) = call.key[2]
              /\ generated_ideas = call.value
           \/ /\ call.status = "raised"
              /\ call.failed = 1
              /\ call.value = <<>>

C4_Witness ==
    /\ GenRan
    /\ call.status = "raised"
    /\ call.key[2] > 1
    /\ call.reqs = 1

\* C5: a worker whose enhancement text already parses as the exact
\* five-field record never calls fix_json_with_gpt.
C5_RepairSkipped ==
    call.fn = "generate_briefs" =>
        \A i \in TaskIds :
            WellFormed(tasks[i].content) => (tasks[i].fixCalls = 0 /\ tasks[i].fixReqs = 0)

\* C6: a worker calls fix_json_with_gpt at most once and issues at most one
\* repair request; when the repaired text does not parse, its future fails
\* with the parse error and no further repair is attempted; when a future
\* failed, generate_briefs raises the exception of one of the failed futures
\* (the parse error when only parse errors occurred), returns nothing and
\* leaves idea_briefs alone; when it returns, it returns one brief per idea.
C6_RepairOnce ==
    /\ [](\A i \in TaskIds : tasks[i].fixCalls <= 1 /\ tasks[i].fixReqs <= 1)
    /\ [][/\ \A i \in TaskIds :
                (/\ pc = "brief"
                 /\ tasks[i].st \in {"enhanced", "fixing"}
                 /\ tasks'[i].st \in {"ok", "failed"}
                 /\ FixKey(tasks[i].content) \in DOMAIN cache_fix_json'
                 /\ ~JsonParses(cache_fix_json'[FixKey(tasks[i].content)])) =>
                    /\ tasks'[i].st = "failed"
                    /\ tasks'[i].err = "parse"
                    /\ tasks'[i].fixCalls = 1
          /\ BriefEnds =>
                /\ Failed # {} =>
                      /\ call'.status = "raised"
                      /\ call'.value = <<>>
                      /\ idea_briefs' = idea_briefs
                      /\ call'.errTask \in Failed
                      /\ call'.err = tasks[call'.errTask].err
                      /\ (\A i \in Failed : tasks[i].err = "parse") => call'.err = "parse"
                /\ call'.status = "ok" =>
                      /\ Failed = {}
                      /\ Len(call'.value) = Len(tasks)
                      /\ \A i \in TaskIds : tasks[i].brief # NoBrief]_vars

C6_Witness ==
    /\ BriefRan
    /\ call.status = "raised"
    /\ call.err = "parse"
    /\ call.failed = 1
    /\ call.reqs = 2

\* C7: every element of session idea_briefs is a record with the five keys
\* title, description, justification, methodology and datasets_sources.
C7_BriefsComplete ==
    \A i \in 1..Len(idea_briefs) :
        idea_briefs[i].type = "dict" /\ BriefKeys \subseteq idea_briefs[i].keys

\* C8 (as claimed): generate_briefs is called on exactly one block per
\* selected title, so the number of blocks is the number of selected titles.
C8_OneBlockPerTitle ==
    BriefClicked =>
        LET blocks == call.key[1] IN
        /\ Len(blocks) = Cardinality(call.sel)
        /\ \A t \in call.sel :
              Cardinality({i \in 1..Len(blocks) : TitleOf(blocks[i]) = t}) = 1

\* C8 (amended): generate_briefs is called on the refined ideas whose title
\* is selected, all of them and in list order (each as often as it is
\* listed); every selected title has a block, no block of another title is
\* passed, and there is one block per selected title when the titles of the
\* refined ideas are pairwise distinct.
C8_BlocksOfSelectedTitles ==
    BriefClicked =>
        LET blocks == call.key[1] IN
        /\ blocks = SelectSeq(refined_ideas, LAMBDA b : TitleOf(b) \in call.sel)
        /\ \A i \in 1..Len(blocks) : TitleOf(blocks[i]) \in call.sel
        /\ \A i \in 1..Len(refined_ideas) :
              Count(refined_ideas[i], blocks) =
                 (IF TitleOf(refined_ideas[i]) \in call.sel
                  THEN Count(refined_ideas[i], refined_ideas) ELSE 0)
        /\ \A t \in call.sel : \E i \in 1..Len(blocks) : TitleOf(blocks[i]) = t
        /\ Len(blocks) >= Cardinality(call.sel)
        /\ (\A i, j \in 1..Len(refined_ideas) :
                TitleOf(refined_ideas[i]) = TitleOf(refined_ideas[j]) => i = j) =>
              Len(blocks) = Cardinality(call.sel)

C8_Witness ==
    /\ BriefClicked
    /\ call.status = "running"
    /\ Cardinality(call.sel) = 1
    /\ Len(call.key[1]) = 2
    /\ Len(tasks) = 2

\* C9: when generate_briefs ends, every five-field brief parsed by a worker
\* is in the returned list and in session idea_briefs, also when a sibling
\* worker failed.
C9_BriefIsolation ==
    [][BriefEnds =>
         \A i \in Succeeded :
            tasks[i].brief.keys = BriefKeys =>
               /\ \E k \in 1..Len(call'.value) : call'.value[k] = tasks[i].brief
               /\ \E k \in 1..Len(idea_briefs') : idea_briefs'[k] = tasks[i].brief]_vars

\* C10: when a get_idea_summary future failed, evaluate_ideas raises, returns
\* nothing, stores nothing and refined_ideas is not written, however many
\* siblings succeeded and in whatever order; it returns only when every
\* future succeeded, with one summary per future.
C10_EvalBatchFatal ==
    /\ [](EvalRan =>
            /\ call.failed > 0 =>
                  /\ call.status = "raised"
                  /\ call.value = <<>>
                  /\ call.key \notin DOMAIN cache_evaluate_ideas
            /\ call.status = "ok" => (call.failed = 0 /\ Len(call.value) = call.reqs))
    /\ [][EvalEnds =>
            /\ Failed # {} =>
                  /\ call'.status = "raised"
                  /\ call'.value = <<>>
                  /\ call'.errTask \in Failed
                  /\ refined_ideas' = refined_ideas
                  /\ cache_evaluate_ideas' = cache_evaluate_ideas
            /\ call'.status = "ok" =>
                  /\ Failed = {}
                  /\ Len(call'.value) = Len(tasks)]_vars

C10_Witness ==
    /\ EvalRan
    /\ call.status = "raised"
    /\ call.reqs = 2
    /\ call.failed = 1
    /\ call.errTask = 1

\* C11: a call of evaluate_ideas or generate_briefs returns or raises only
\* when every future it submitted has settled, also when a future failed
\* while siblings were running; while a future is unsettled the call is
\* still blocked in its pool.
C11_StageBarrier ==
    /\ [](\A i \in TaskIds :
            ~Settled(tasks[i]) => (pc \in {"eval", "brief"} /\ call.status = "running"))
    /\ [][(EvalEnds \/ BriefEnds) =>
            /\ \A i \in TaskIds : Settled(tasks[i])
            /\ Len(done) = Len(tasks)
            /\ call'.status \in {"ok", "raised"}]_vars

\* the first future yielded failed, its sibling settled afterwards, and the
\* call has waited for it
C11_Witness ==
    /\ pc = "brief"
    /\ Len(tasks) = 2
    /\ Len(done) = 2
    /\ tasks[done[1]].st = "failed"
    /\ tasks[done[2]].st = "ok"
    /\ call.status = "running"

\* C13: a click on "Brainstorm Ideas" with an empty topic is rejected: no
\* request is issued, get_ideas is not called, and the session and the stores
\* are left as they were; get_ideas is only ever called with a non-empty
\* topic and a count of at least 1.
C13_ValidationFirst ==
    /\ [](/\ (call.fn = "get_ideas" /\ call.status = "rejected") =>
                (call.reqs = 0 /\ call.key = <<>> /\ call.value = <<>> /\ ~call.hit)
          /\ (call.fn = "get_ideas" /\ call.status # "rejected") =>
                (call.key[1] # "" /\ call.key[2] >= 1)
          /\ \A k \in DOMAIN cache_get_ideas : k[1] # "" /\ k[2] >= 1)
    /\ [][(pc = "idle" /\ call'.fn = "get_ideas" /\ call'.status = "rejected") =>
            /\ generated_ideas' = generated_ideas
            /\ refined_ideas' = refined_ideas
            /\ idea_briefs' = idea_briefs
            /\ cache_get_ideas' = cache_get_ideas
            /\ runs' = runs
            /\ pc' = "idle"]_vars

C13_Witness ==
    /\ call.fn = "get_ideas"
    /\ call.status = "rejected"
    /\ generated_ideas # <<>>
    /\ call.reqs = 0

C15_BriefsBySource ==
    [][(BriefEnds /\ call'.status = "ok") =>
         /\ Len(call'.value) = Len(tasks)
         /\ \A k \in 1..Len(call'.value) : call'.value[k] = tasks[k].brief]_vars

\* C16: generated_ideas changes only in a successful get_ideas click, which
\* leaves refined_ideas and idea_briefs alone; refined_ideas changes only in
\* a successful evaluate_ideas click, which leaves the other two alone;
\* idea_briefs changes only in a successful generate_briefs click, which
\* leaves the other two alone.  Each successful click writes the returned
\* value to its own entry.
C16_StageWritesOwnEntry ==
    [][/\ generated_ideas' # generated_ideas =>
            (call'.fn = "get_ideas" /\ call'.status = "ok")
       /\ refined_ideas' # refined_ideas =>
            (call'.fn = "evaluate_ideas" /\ call'.status = "ok")
       /\ idea_briefs' # idea_briefs =>
            (call'.fn = "generate_briefs" /\ call'.status = "ok")
       /\ (pc = "idle" /\ call'.fn = "get_ideas") =>
            /\ refined_ideas' = refined_ideas
            /\ idea_briefs' = idea_briefs
            /\ call'.status = "ok" => generated_ideas' = call'.value
       /\ call'.fn = "evaluate_ideas" =>
            /\ generated_ideas' = generated_ideas
            /\ idea_briefs' = idea_briefs
            /\ (call'.status = "ok" /\ pc' = "idle") => refined_ideas' = call'.value
       /\ call'.fn = "generate_briefs" =>
            /\ generated_ideas' = generated_ideas
            /\ refined_ideas' = refined_ideas
            /\ (call'.status = "ok" /\ pc' = "idle") => idea_briefs' = call'.value]_vars

\* stale downstream data: one idea was just generated while the two ideas
\* refined before are still in the session
C16_Witness ==
    /\ GenRan
    /\ call.status = "ok"
    /\ Len(generated_ideas) = 1
    /\ Len(refined_ideas) = 2

\* C17: the keys of the store of fix_json_with_gpt are the argument pairs
\* (content, expected_format); an entry is never changed or dropped; a worker
\* that finds its pair stored parses the text stored for that pair; a worker
\* whose repair request returns writes the entry of its own pair and no
\* other, and parses what it wrote.
C17_FixCacheSafe ==
    /\ [](\A k \in DOMAIN cache_fix_json :
            /\ k[1] \in EnhancedTexts
            /\ k[2] = expected_format
            /\ cache_fix_json[k] \in FixedTexts)
    /\ [][/\ \A k \in DOMAIN cache_fix_json :
                k \in DOMAIN cache_fix_json' /\ cache_fix_json'[k] = cache_fix_json[k]
          /\ \A i \in TaskIds :
                LET own == <<tasks[i].content, expected_format>> IN
                /\ (/\ pc = "brief"
                    /\ tasks[i].st = "enhanced"
                    /\ tasks'[i].st \in {"ok", "failed"}
                    /\ tasks'[i].err # "provider") =>
                        /\ own \in DOMAIN cache_fix_json
                        /\ cache_fix_json' = cache_fix_json
                        /\ IF JsonParses(cache_fix_json[own])
                           THEN tasks'[i].brief = JsonLoads(cache_fix_json[own])
                           ELSE tasks'[i].err = "parse"
                /\ (/\ pc = "brief"
                    /\ tasks[i].st = "fixing"
                    /\ tasks'[i].st \in {"ok", "failed"}
                    /\ tasks'[i].err # "provider") =>
                        /\ own \notin DOMAIN cache_fix_json
                        /\ DOMAIN cache_fix_json' = DOMAIN cache_fix_json \cup {own}
                        /\ IF JsonParses(cache_fix_json'[own])
                           THEN tasks'[i].brief = JsonLoads(cache_fix_json'[own])
                           ELSE tasks'[i].err = "parse"]_vars

\* two workers of one call have both called fix_json_with_gpt and one repair
\* request was issued: one of them was served the entry its sibling wrote
C17_Witness ==
    /\ pc = "brief"
    /\ Len(tasks) = 2
    /\ \A i \in TaskIds : tasks[i].st = "ok" /\ tasks[i].fixCalls = 1
    /\ call.reqs = 3
    /\ Cardinality(DOMAIN cache_fix_json) = 1

\* C18: evaluate_ideas is called only when generated_ideas is non-empty,
\* generate_briefs only when refined_ideas is non-empty and export_briefs
\* only when idea_briefs is non-empty; in every state non-empty idea_briefs
\* implies non-empty refined_ideas, which implies non-empty generated_ideas.
C18_StageGating ==
    /\ idea_briefs # <<>> => refined_ideas # <<>>
    /\ refined_ideas # <<>> => generated_ideas # <<>>
    /\ call.fn = "evaluate_ideas" => (generated_ideas # <<>> /\ call.key[1] # <<>>)
    /\ call.fn = "generate_briefs" => refined_ideas # <<>>
    /\ (call.fn = "generate_briefs" /\ call.status # "rejected") => call.key[1] # <<>>
    /\ call.fn = "export_briefs" => (idea_briefs # <<>> /\ call.value = idea_briefs)
    /\ pc = "eval" => generated_ideas # <<>>
    /\ pc = "brief" => (refined_ideas # <<>> /\ generated_ideas # <<>>)

C18_Witness ==
    /\ call.fn = "export_briefs"
    /\ idea_briefs # <<>>
    /\ refined_ideas # <<>>
    /\ generated_ideas # <<>>

\* C19: from the click to the exception, a call of get_ideas, evaluate_ideas
\* or generate_briefs that raises leaves generated_ideas, refined_ideas and
\* idea_briefs as they were, a result of an earlier successful call of the
\* same stage included.
C19_FailureKeepsSession ==
    [][call'.status \in {"running", "raised"} =>
         /\ generated_ideas' = generated_ideas
         /\ refined_ideas' = refined_ideas
         /\ idea_briefs' = idea_briefs]_vars

\* evaluate_ideas raised and the refined ideas of an earlier call are kept
C19_Witness ==
    /\ call.fn = "evaluate_ideas"
    /\ call.status = "raised"
    /\ refined_ideas # <<>>
    /\ ~call.retry

====
